---------------------------- MODULE Spec2Model ----------------------------
(***************************************************************************)
(* A model of PySXB (src/src/PySXB/pysxb.py): the host-side session of the *)
(* WDC SXB board protocol over a serial link.                              *)
(*                                                                         *)
(* Every method of the class is an operator that takes the transport `t`   *)
(* (the serial port the session inherits from) and returns a result record *)
(* [exc, t, val]: the exception that escaped ("none" when the method       *)
(* returned), the transport afterwards and the Python value returned.  The *)
(* session is single-threaded and synchronous, so one call of a public     *)
(* method is one action.                                                   *)
(***************************************************************************)
EXTENDS Integers, Sequences, FiniteSets, TLC

(* The field names of the records of the model, in alphabetical order.     *)
(* TLC keeps the fields of a record in the order in which their names      *)
(* first occur in the module; every record below is written in this order, *)
(* so that a record is built in the order TLC keeps it in.                 *)
Fields ==
    [a_reg |-> {}, address |-> {}, attrs |-> {}, board_id |-> {},
     byte_array |-> {}, cmd_code |-> {}, constructed |-> {},
     cpu_type |-> {}, data |-> {}, emulation |-> {}, emulation_mode |-> {},
     exc |-> {}, hw_io |-> {}, hw_vector_base |-> {}, length |-> {},
     log |-> {}, mon_ram |-> {}, mon_rom |-> {}, n |-> {}, number |-> {},
     op |-> {}, out |-> {}, processor_flags |-> {}, rom_data |-> {},
     rx |-> {}, script |-> {}, self |-> {}, shadow_vector_base |-> {},
     site |-> {}, t |-> {}, ty |-> {}, v |-> {}, val |-> {}, x_reg |-> {},
     y_reg |-> {}]

VARIABLES
    session,    \* the instance attributes set by __init__ (the Board Model)
    call,       \* the last call made on the session, with its arguments
    log,        \* the transport operations that call performed, in order
    ret         \* how that call ended: [exc, val]

vars == <<session, call, log, ret>>

---------------------------------------------------------------------------
(* Protocol constants, pysxb.py lines 12-19.                               *)
AT == <<85, 170>>
WRITE == 2
READ == 3
TIDE == 4
EXEC == 5
BLK_SIZE == 62
OK == 204

---------------------------------------------------------------------------
(* Python values.  A value is tagged with its type so that truthiness      *)
(* (`if address:`, `if self.write(AT):`) is computed as Python computes it. *)
PyNone == [ty |-> "None"]
PyBool(b) == [ty |-> "bool", v |-> b]
PyInt(n) == [ty |-> "int", v |-> n]
PyBytes(s) == [ty |-> "bytes", v |-> s]
PyTuple(s) == [ty |-> "tuple", v |-> s]

Truthy(x) ==
    CASE x.ty = "None" -> FALSE
      [] x.ty = "bool" -> x.v
      [] x.ty = "int" -> x.v # 0
      [] x.ty = "bytes" -> Len(x.v) # 0
      [] x.ty = "tuple" -> Len(x.v) # 0

Returned(t, v) == [exc |-> "none", t |-> t, val |-> v]
Raised(t, e) == [exc |-> e, t |-> t, val |-> PyNone]

(* data[a:b] of a Python sequence (0-based, end exclusive, clamped).       *)
Min(a, b) == IF a < b THEN a ELSE b
Max(a, b) == IF a > b THEN a ELSE b
Slice(s, a, b) == SubSeq(s, Min(a, Len(s)) + 1, Min(b, Len(s)))

(* buf[a:b] = s on a bytearray: the slice is replaced by s, whatever its   *)
(* length.                                                                 *)
SliceAssign(buf, a, b, s) ==
    LET lo == Min(a, Len(buf))
        hi == Max(lo, Min(b, Len(buf)))
    IN  SubSeq(buf, 1, lo) \o s \o SubSeq(buf, hi + 1, Len(buf))

RECURSIVE Pow2(_)
Pow2(k) == IF k = 0 THEN 1 ELSE 2 * Pow2(k - 1)

(* Bitwise operators on non-negative integers.                             *)
RECURSIVE BitOr(_, _)
BitOr(a, b) ==
    IF a = 0 THEN b
    ELSE IF b = 0 THEN a
    ELSE (IF a % 2 = 1 \/ b % 2 = 1 THEN 1 ELSE 0) + 2 * BitOr(a \div 2, b \div 2)

RECURSIVE BitAnd(_, _)
BitAnd(a, b) ==
    IF a = 0 \/ b = 0 THEN 0
    ELSE (IF a % 2 = 1 /\ b % 2 = 1 THEN 1 ELSE 0) + 2 * BitAnd(a \div 2, b \div 2)

Shl(a, k) == a * Pow2(k)
Shr(a, k) == a \div Pow2(k)

---------------------------------------------------------------------------
(* The address/length codec, pysxb.py lines 61-91.                         *)

RECURSIVE decode_from(_, _, _)
decode_from(byte_array, i, return_val) ==
    IF i >= Len(byte_array) THEN return_val
    ELSE decode_from(byte_array, i + 1,
                     BitOr(return_val, Shl(byte_array[i + 1], i * 8)))

decode(byte_array) == decode_from(byte_array, 0, 0)

encode_BigEndian(number, address) ==
    IF address
    THEN <<BitAnd(Shr(number, 16), 255), BitAnd(Shr(number, 8), 255),
           BitAnd(number, 255)>>
    ELSE <<BitAnd(Shr(number, 8), 255), BitAnd(number, 255)>>

encode(number, address) ==
    IF address
    THEN <<BitAnd(number, 255), BitAnd(Shr(number, 8), 255),
           BitAnd(Shr(number, 16), 255)>>
    ELSE <<BitAnd(number, 255), BitAnd(Shr(number, 8), 255)>>

---------------------------------------------------------------------------
(* The transport: serial.Serial, which PySXB extends.  It is the external  *)
(* collaborator of the session; what it does is chosen by the environment: *)
(*   script  the outcome of each write still to come ("ok" once it is      *)
(*           used up): "ok" writes all of data, "zero" writes nothing and  *)
(*           returns 0, "timeout" raises SerialTimeoutException,           *)
(*           "typeerror" raises TypeError;                                 *)
(*   rx      the bytes the board sends before the read timeout: read(n)    *)
(*           returns the first n of them, fewer when fewer arrive;         *)
(*   log     the operations performed so far.                              *)
(* A write raises TypeError only where the data can make the conversion to *)
(* bytes fail: the command packet write, whose handler expects it, and a   *)
(* sequence that holds something other than bytes.                         *)
ByteStrings == {ToString(b) : b \in 0..255}
IsByte(e) == ToString(e) \in ByteStrings
BytesLike(data) == \A i \in 1..Len(data) : IsByte(data[i])

Transport(script, rx) == [log |-> <<>>, rx |-> rx, script |-> script]

WriteOutcome(t, data, site) ==
    LET tok == IF t.script = <<>> THEN "ok" ELSE Head(t.script)
    IN  IF tok = "typeerror" /\ site # "command" /\ BytesLike(data)
        THEN "ok" ELSE tok

Written(t, data, site, out, n) ==
    [log |-> Append(t.log, [data |-> data, n |-> n, op |-> "write",
                            out |-> out, site |-> site]),
     rx |-> t.rx,
     script |-> IF t.script = <<>> THEN <<>> ELSE Tail(t.script)]

WriteEnds(t, data, site, out) ==
    CASE out = "timeout" ->
             Raised(Written(t, data, site, out, 0), "SerialTimeoutException")
      [] out = "typeerror" -> Raised(Written(t, data, site, out, 0), "TypeError")
      [] out = "zero" -> Returned(Written(t, data, site, out, 0), PyInt(0))
      [] OTHER -> Returned(Written(t, data, site, out, Len(data)), PyInt(Len(data)))

Write(t, data, site) == WriteEnds(t, data, site, WriteOutcome(t, data, site))

ReadGot(t, n, site, got) ==
    Returned([log |-> Append(t.log, [data |-> got, n |-> n, op |-> "read",
                                     out |-> IF Len(got) = n THEN "ok" ELSE "short",
                                     site |-> site]),
              rx |-> SubSeq(t.rx, Len(got) + 1, Len(t.rx)),
              script |-> t.script],
             PyBytes(got))

Read(t, n, site) == ReadGot(t, n, site, SubSeq(t.rx, 1, Min(n, Len(t.rx))))

---------------------------------------------------------------------------
(* The methods.  A method that goes on after a transport operation or a    *)
(* call is written as one operator per stage, the later stage taking the   *)
(* result of the operation it follows.                                     *)
---------------------------------------------------------------------------
(* sxb_at, pysxb.py lines 246-256.  ord() of the reply raises TypeError    *)
(* unless the reply is exactly one byte; only SerialTimeoutException is    *)
(* handled.  When write() returns 0 the method falls off its end and       *)
(* returns None.                                                           *)
reply_ready_AnyByte(reply) == TRUE

reply_ready(reply) == reply[1] = OK

at_reply(r) ==
    IF Len(r.val.v) # 1 THEN Raised(r.t, "TypeError")
    ELSE Returned(r.t, PyBool(reply_ready(r.val.v)))

at_written(w) ==
    IF w.exc = "SerialTimeoutException" THEN Returned(w.t, PyBool(FALSE))
    ELSE IF w.exc # "none" THEN w
    ELSE IF Truthy(w.val) THEN at_reply(Read(w.t, 1, "at"))
    ELSE Returned(w.t, PyNone)

sxb_at(t) == at_written(Write(t, AT, "at"))

(* sxb_command, pysxb.py lines 258-289.  `if address:` and `if length:`    *)
(* test truthiness: None and 0 both leave the field out of the packet.     *)
command_packet(cmd_code, address, length) ==
    <<cmd_code>>
    \o (IF Truthy(address) THEN encode(address.v, TRUE) ELSE <<>>)
    \o (IF Truthy(length) THEN encode(length.v, FALSE) ELSE <<>>)

command_result_AtLeastZero(w) ==
    IF w.exc = "none" THEN Returned(w.t, PyBool(w.val.v >= 0))
    ELSE Returned(w.t, PyNone)

command_result(w) ==
    IF w.exc = "none" THEN Returned(w.t, PyBool(w.val.v > 0))
    ELSE IF w.exc \in {"SerialTimeoutException", "TypeError"}
    THEN Returned(w.t, PyNone)
    ELSE w

command_after_at(a, cmd_code, address, length) ==
    IF a.exc # "none" THEN a
    ELSE IF Truthy(a.val)
    THEN command_result(
             Write(a.t, command_packet(cmd_code, address, length), "command"))
    ELSE Returned(a.t, PyNone)

sxb_command(t, cmd_code, address, length) ==
    command_after_at(sxb_at(t), cmd_code, address, length)

---------------------------------------------------------------------------
(* sxb_write, pysxb.py lines 291-318.  The chunk writes are outside any    *)
(* try block.  After the loop the method returns 0.                        *)
write_chunk_Short(data, blk, length) ==
    IF blk + BLK_SIZE < length
    THEN Slice(data, blk, blk + BLK_SIZE - 1)
    ELSE Slice(data, blk, length)

write_chunk(data, blk, length) ==
    IF blk + BLK_SIZE < length
    THEN Slice(data, blk, blk + BLK_SIZE)
    ELSE Slice(data, blk, length)

RECURSIVE write_blocks(_, _, _, _)
write_next(w, data, blk, length) ==
    IF w.exc # "none" THEN w
    ELSE write_blocks(w.t, data, blk + BLK_SIZE, length)

write_blocks(t, data, blk, length) ==
    IF blk >= length THEN Returned(t, PyInt(0))
    ELSE write_next(Write(t, write_chunk(data, blk, length),
                          IF blk + BLK_SIZE < length THEN "full" ELSE "last"),
                    data, blk, length)

write_after_command(c, data, length) ==
    IF c.exc # "none" THEN c
    ELSE IF Truthy(c.val)
    THEN IF length < BLK_SIZE THEN Write(c.t, data, "single")
         ELSE write_blocks(c.t, data, 0, length)
    ELSE Returned(c.t, PyInt(0))

sxb_write(t, data, address) ==
    IF ~Truthy(address) THEN Write(t, data, "raw")
    ELSE write_after_command(sxb_command(t, WRITE, address, PyInt(Len(data))),
                             data, Len(data))

---------------------------------------------------------------------------
(* sxb_read, pysxb.py lines 355-380.  The result of the READ dispatch is   *)
(* not looked at.                                                          *)
read_size_OneLess(blk, length) ==
    IF blk + BLK_SIZE < length THEN BLK_SIZE ELSE length - blk - 1

read_size(blk, length) ==
    IF blk + BLK_SIZE < length THEN BLK_SIZE ELSE length - blk

RECURSIVE read_blocks(_, _, _, _)
read_store(r, return_data, blk, length) ==
    read_blocks(r.t,
                SliceAssign(return_data, blk,
                            IF blk + BLK_SIZE < length THEN blk + BLK_SIZE
                            ELSE length,
                            r.val.v),
                blk + BLK_SIZE, length)

read_blocks(t, return_data, blk, length) ==
    IF blk >= length THEN Returned(t, PyBytes(return_data))
    ELSE read_store(Read(t, read_size(blk, length),
                         IF blk + BLK_SIZE < length THEN "full" ELSE "last"),
                    return_data, blk, length)

read_after_command(c, length) ==
    IF c.exc # "none" THEN c
    ELSE IF length < BLK_SIZE THEN Read(c.t, length, "single")
    ELSE read_blocks(c.t, [i \in 1..length |-> 0], 0, length)

sxb_read(t, length, address) ==
    read_after_command(IF Truthy(address)
                       THEN sxb_command(t, READ, address, PyInt(length))
                       ELSE Returned(t, PyNone),
                       length)

---------------------------------------------------------------------------
(* sxb_execute, pysxb.py lines 320-353.  encode() returns a tuple, so the  *)
(* first three elements of processor_state are the tuples (lo, hi)         *)
(* themselves; the result of sxb_write is not looked at.  An instance      *)
(* whose attributes were never set raises AttributeError on self.emulation. *)
processor_state(self, address, a_reg, x_reg, y_reg, processor_flags) ==
    <<encode(a_reg, FALSE),
      encode(x_reg, FALSE),
      encode(y_reg, FALSE),
      encode(address, TRUE)[1], encode(address, TRUE)[2],
      0, 0,
      255, 1,
      processor_flags,
      IF self.emulation THEN 1 ELSE 0,
      0,
      0>>

execute_after_write(w) ==
    IF w.exc # "none" THEN w
    ELSE sxb_command(w.t, EXEC, PyNone, PyInt(1))

sxb_execute(self, t, address, a_reg, x_reg, y_reg, processor_flags) ==
    IF ~self.attrs THEN Raised(t, "AttributeError")
    ELSE execute_after_write(
             sxb_write(t,
                       processor_state(self, address, a_reg, x_reg, y_reg,
                                       processor_flags),
                       PyInt(self.mon_ram)))

---------------------------------------------------------------------------
(* sxb_load, pysxb.py lines 382-406.  rom_data is the content of the file; *)
(* the result of sxb_write is not looked at.                               *)
load_after_write(w, code_address, code_length) ==
    IF w.exc # "none" THEN w
    ELSE Returned(w.t, PyTuple(<<code_address, code_length>>))

load_code(t, rom_data, code_address, code_length) ==
    load_after_write(
        sxb_write(t, Slice(rom_data, 7, 7 + code_length), PyInt(code_address)),
        code_address, code_length)

sxb_load_AnyFlag(t, rom_data) ==
    IF Len(rom_data) = 0 THEN Raised(t, "IndexError")
    ELSE load_code(t, rom_data, decode(Slice(rom_data, 1, 4)),
                   decode(Slice(rom_data, 4, 6)))

sxb_load(t, rom_data) ==
    IF Len(rom_data) = 0 THEN Raised(t, "IndexError")
    ELSE IF rom_data[1] = 90
    THEN load_code(t, rom_data, decode(Slice(rom_data, 1, 4)),
                   decode(Slice(rom_data, 4, 6)))
    ELSE Raised(t, "ValueError")

---------------------------------------------------------------------------
(* __init__, pysxb.py lines 35-59.  The result is [exc, self, t]; the      *)
(* attributes are set only when tide_data is not empty, and tide_data[3]   *)
(* and tide_data[4] raise IndexError on a block of fewer than 5 bytes.     *)
NoAttributes(constructed) ==
    [attrs |-> FALSE, board_id |-> 0, constructed |-> constructed,
     cpu_type |-> 0, emulation |-> FALSE, hw_io |-> 0, hw_vector_base |-> 0,
     mon_ram |-> 0, mon_rom |-> 0, shadow_vector_base |-> 0]

BoardModel_EmulationAsGiven(tide_data, emulation_mode) ==
    [attrs |-> TRUE,
     board_id |-> tide_data[5],
     constructed |-> TRUE,
     cpu_type |-> tide_data[4],
     emulation |-> emulation_mode,
     hw_io |-> decode(Slice(tide_data, 14, 17)),
     hw_vector_base |-> decode(Slice(tide_data, 17, 20)),
     mon_ram |-> decode(Slice(tide_data, 0, 3)),
     mon_rom |-> decode(Slice(tide_data, 8, 11)),
     shadow_vector_base |-> decode(Slice(tide_data, 11, 14))]

BoardModel(tide_data, emulation_mode) ==
    [attrs |-> TRUE,
     board_id |-> tide_data[5],
     constructed |-> TRUE,
     cpu_type |-> tide_data[4],
     emulation |-> IF tide_data[4] # 0 THEN emulation_mode ELSE TRUE,
     hw_io |-> decode(Slice(tide_data, 14, 17)),
     hw_vector_base |-> decode(Slice(tide_data, 17, 20)),
     mon_ram |-> decode(Slice(tide_data, 0, 3)),
     mon_rom |-> decode(Slice(tide_data, 8, 11)),
     shadow_vector_base |-> decode(Slice(tide_data, 11, 14))]

init_decode(r, emulation_mode) ==
    IF Len(r.val.v) = 0
    THEN [exc |-> "none", self |-> NoAttributes(TRUE), t |-> r.t]
    ELSE IF Len(r.val.v) < 5
    THEN [exc |-> "IndexError", self |-> NoAttributes(FALSE), t |-> r.t]
    ELSE [exc |-> "none", self |-> BoardModel(r.val.v, emulation_mode),
          t |-> r.t]

init_after_command(c, emulation_mode) ==
    IF c.exc # "none"
    THEN [exc |-> c.exc, self |-> NoAttributes(FALSE), t |-> c.t]
    ELSE init_decode(IF Truthy(c.val) THEN Read(c.t, 29, "tide")
                     ELSE Returned(c.t, PyBytes([i \in 1..29 |-> 0])),
                     emulation_mode)

PySXB_init(t, emulation_mode) ==
    init_after_command(sxb_command(t, TIDE, PyNone, PyNone), emulation_mode)

---------------------------------------------------------------------------
(* The memory properties, pysxb.py lines 123-148.  Each is one sxb_read;   *)
(* processor reads self.mon_ram, which an instance whose attributes were   *)
(* never set does not have.                                                *)
stack(self, t) == sxb_read(t, 256, PyInt(256))

processor(self, t) ==
    IF ~self.attrs THEN Raised(t, "AttributeError")
    ELSE sxb_read(t, 16, PyInt(self.mon_ram))

zero_page(self, t) == sxb_read(t, 256, PyInt(0))

---------------------------------------------------------------------------
(* The vector properties, pysxb.py lines 150-236.  None of them touches    *)
(* the transport.  nmi_vector has no return statement for emulation off:   *)
(* it falls off its end and returns None.                                  *)
irq_vector(self, t) ==
    IF ~self.attrs THEN Raised(t, "AttributeError")
    ELSE IF self.emulation
    THEN Returned(t, PyInt(self.shadow_vector_base + 10 + 16))
    ELSE Returned(t, PyInt(self.shadow_vector_base + 10))

reset_vector(self, t) ==
    IF ~self.attrs THEN Raised(t, "AttributeError")
    ELSE IF self.emulation
    THEN Returned(t, PyInt(self.shadow_vector_base + 8 + 16))
    ELSE Returned(t, PyInt(self.shadow_vector_base + 8))

nmi_vector(self, t) ==
    IF ~self.attrs THEN Raised(t, "AttributeError")
    ELSE IF self.emulation
    THEN Returned(t, PyInt(self.shadow_vector_base + 6 + 16))
    ELSE Returned(t, PyNone)

break_vector_Plus16(self, t) ==
    IF ~self.attrs THEN Raised(t, "AttributeError")
    ELSE IF self.emulation
    THEN Returned(t, PyInt(self.shadow_vector_base + 2 + 16))
    ELSE Returned(t, PyInt(self.shadow_vector_base + 2))

break_vector(self, t) ==
    IF ~self.attrs THEN Raised(t, "AttributeError")
    ELSE IF self.emulation
    THEN Returned(t, PyInt(self.shadow_vector_base + 2 + 24))
    ELSE Returned(t, PyInt(self.shadow_vector_base + 2))

abort_vector(self, t) ==
    IF ~self.attrs THEN Raised(t, "AttributeError")
    ELSE IF self.cpu_type = 0 THEN Returned(t, PyNone)
    ELSE IF self.emulation
    THEN Returned(t, PyInt(self.shadow_vector_base + 4 + 16))
    ELSE Returned(t, PyInt(self.shadow_vector_base + 4))

coprocessor_vector(self, t) ==
    IF ~self.attrs THEN Raised(t, "AttributeError")
    ELSE IF self.cpu_type = 0 THEN Returned(t, PyNone)
    ELSE IF self.emulation
    THEN Returned(t, PyInt(self.shadow_vector_base + 16))
    ELSE Returned(t, PyInt(self.shadow_vector_base))

(* hardware_address, pysxb.py lines 238-244.  `&` binds tighter than `|`.  *)
hardware_address_TopByte(self, t, address) ==
    IF ~self.attrs THEN Raised(t, "AttributeError")
    ELSE Returned(t, PyInt(BitOr(BitAnd(Shr(self.hw_vector_base, 8), 65280),
                                 BitAnd(address, 255))))

hardware_address(self, t, address) ==
    IF ~self.attrs THEN Raised(t, "AttributeError")
    ELSE Returned(t, PyInt(BitOr(BitAnd(self.hw_vector_base, 65280),
                                 BitAnd(address, 255))))

---------------------------------------------------------------------------
(* Bounds of the model and the inputs the environment chooses from.        *)
MaxScript == 3      \* scripted outcomes of the first MaxScript writes of a call
MaxSmall == 3       \* the longest payload of the session specification
MaxLen == 126       \* the longest payload of the chunking specification
MaxFaultAt == 5     \* the last write of a call the chunking specification fails

Tokens == {"ok", "zero", "timeout", "typeerror"}
Scripts == UNION {[1..k -> Tokens] : k \in 0..MaxScript}
ChunkScripts ==
    {<<>>, <<"ok", "zero">>}
    \cup {[i \in 1..k |-> IF i = k THEN "timeout" ELSE "ok"] : k \in 1..MaxFaultAt}

(* The bytes a board may answer a handshake with: OK, or something else.   *)
ReplyBytes == {OK, 0}
Replies(k) == UNION {[1..j -> ReplyBytes] : j \in 0..k}

(* A payload of n bytes, all different from their neighbours.              *)
Pattern(n) == [i \in 1..n |-> (i * 3 + 1) % 256]

Addresses == {PyNone, PyInt(0), PyInt(1), PyInt(1193046)}
Lengths == {PyNone, PyInt(0), PyInt(1), PyInt(256)}
Opcodes == {WRITE, READ, TIDE, EXEC}

(* Sample values of 1, 2 and 3 bytes and beyond, for the codec.            *)
ByteSamples == {0, 1, 127, 128, 255}
Numbers ==
    {b0 + 256 * b1 + 65536 * b2 : b0 \in ByteSamples, b1 \in ByteSamples,
                                  b2 \in ByteSamples}
    \cup {65536, 16777216, 16777217, 16777216 + 4660}

(* Register values and targets for sxb_execute.                            *)
Registers == {<<1, 2, 3>>, <<4660, 65535, 0>>, <<256, 255, 32768>>}
Targets == {32768, 1193046}

(* Identity blocks the board answers TIDE with: a 65816 board, a 65C02     *)
(* board, and what is left of a block when the read times out.             *)
Tide816 == <<0, 126, 0,  1,  2,  0, 0, 0,  0, 224, 0,  0, 32, 0,  0, 127, 0,
             52, 18, 171,  0, 0, 0, 0, 0, 0, 0, 0, 0>>
Tide02 == <<0, 126, 0,  0,  1,  0, 0, 0,  0, 248, 0,  0, 126, 0,  0, 127, 0,
            224, 127, 0,  0, 0, 0, 0, 0, 0, 0, 0, 0>>
TideStreams ==
    {<<>>, <<OK>>, <<OK>> \o Tide816, <<OK>> \o Tide02, <<0>> \o Tide816,
     <<OK>> \o SubSeq(Tide816, 1, 4), <<OK>> \o SubSeq(Tide816, 1, 20)}

(* Offsets for hardware_address, and the names of the properties.          *)
Offsets == {0, 86, 255, 256, 4660}
MemoryProperties == {"stack", "processor", "zero_page"}
VectorProperties ==
    {"irq_vector", "reset_vector", "nmi_vector", "break_vector", "abort_vector",
     "coprocessor_vector"}

(* What the board sends while a memory property is read: nothing, the 16   *)
(* bytes of the processor status, or a page of 256 bytes.                  *)
PageSizes == {0, 16, 256}

(* ROM images: flag byte, 3 address bytes, 2 length bytes, one byte that   *)
(* is skipped, then the code.                                              *)
Image(flag, address, length, code) == <<flag>> \o address \o length \o <<255>> \o code
Images ==
    {Image(90, a, l, c) : a \in {<<1, 0, 0>>, <<0, 0, 0>>, <<86, 52, 18>>},
                          l \in {<<2, 0>>, <<1, 0>>, <<0, 0>>},
                          c \in {<<222, 173>>, <<222, 173, 190>>, <<222>>}}
    \cup {Image(0, <<1, 0, 0>>, <<2, 0>>, <<222, 173>>), <<>>}

---------------------------------------------------------------------------
(* The state machine.  A session is constructed (Init); between calls it   *)
(* is idle, and a call is made only then; a call runs to completion on the *)
(* caller's thread.                                                        *)
Idle == call.op = "idle" /\ session.constructed

Finish_Requery(c, r) ==
    /\ call' = c
    /\ log' = r.t.log
    /\ ret' = [exc |-> r.exc, val |-> r.val]
    /\ session' = IF r.exc = "none" THEN session ELSE NoAttributes(TRUE)

Finish(c, r) ==
    /\ call' = c
    /\ log' = r.t.log
    /\ ret' = [exc |-> r.exc, val |-> r.val]
    /\ UNCHANGED session

Constructed(r, emulation_mode) ==
    /\ session = r.self
    /\ call = [emulation_mode |-> emulation_mode, op |-> "__init__"]
    /\ log = r.t.log
    /\ ret = [exc |-> r.exc, val |-> PyNone]

Construct(emulation_mode, script, rx) ==
    Constructed(PySXB_init(Transport(script, rx), emulation_mode), emulation_mode)

Init ==
    \E emulation_mode \in BOOLEAN, script \in Scripts, rx \in TideStreams :
        Construct(emulation_mode, script, rx)

(* The call has returned (or raised) to the caller.                        *)
Return ==
    /\ call.op # "idle"
    /\ session.constructed
    /\ call' = [op |-> "idle"]
    /\ log' = <<>>
    /\ ret' = [exc |-> "none", val |-> PyNone]
    /\ UNCHANGED session

DoAt(script, rx) ==
    Finish([op |-> "sxb_at"], sxb_at(Transport(script, rx)))

DoCommand(cmd_code, address, length, script, rx) ==
    Finish([address |-> address, cmd_code |-> cmd_code, length |-> length,
            op |-> "sxb_command"],
           sxb_command(Transport(script, rx), cmd_code, address, length))

DoWrite(data, address, script, rx) ==
    Finish([address |-> address, data |-> data, op |-> "sxb_write"],
           sxb_write(Transport(script, rx), data, address))

DoRead(length, address, script, rx) ==
    Finish([address |-> address, length |-> length, op |-> "sxb_read"],
           sxb_read(Transport(script, rx), length, address))

DoExecute(address, regs, processor_flags, script, rx) ==
    Finish([a_reg |-> regs[1], address |-> address, op |-> "sxb_execute",
            processor_flags |-> processor_flags, x_reg |-> regs[2],
            y_reg |-> regs[3]],
           sxb_execute(session, Transport(script, rx), address, regs[1], regs[2],
                       regs[3], processor_flags))

DoLoad(rom_data, script, rx) ==
    Finish([op |-> "sxb_load", rom_data |-> rom_data],
           sxb_load(Transport(script, rx), rom_data))

(* A property is read: the getter runs as a call on the session.           *)
memory_property(name, self, t) ==
    CASE name = "stack" -> stack(self, t)
      [] name = "processor" -> processor(self, t)
      [] name = "zero_page" -> zero_page(self, t)

vector_property(name, self, t) ==
    CASE name = "irq_vector" -> irq_vector(self, t)
      [] name = "reset_vector" -> reset_vector(self, t)
      [] name = "nmi_vector" -> nmi_vector(self, t)
      [] name = "break_vector" -> break_vector(self, t)
      [] name = "abort_vector" -> abort_vector(self, t)
      [] name = "coprocessor_vector" -> coprocessor_vector(self, t)

DoMemory(name, script, rx) ==
    Finish([op |-> name], memory_property(name, session, Transport(script, rx)))

DoVector(name) ==
    Finish([op |-> name], vector_property(name, session, Transport(<<>>, <<>>)))

DoHardwareAddress(address) ==
    Finish([address |-> address, op |-> "hardware_address"],
           hardware_address(session, Transport(<<>>, <<>>), address))

(* The codec is static: encode a number, then decode what encode returned. *)
DoEncode(number, address) ==
    /\ call' = [address |-> address, number |-> number, op |-> "encode"]
    /\ log' = <<>>
    /\ ret' = [exc |-> "none", val |-> PyTuple(encode(number, address))]
    /\ UNCHANGED session

DoDecode ==
    /\ call.op = "encode"
    /\ call' = [address |-> call.address, byte_array |-> ret.val.v,
                number |-> call.number, op |-> "decode"]
    /\ log' = <<>>
    /\ ret' = [exc |-> "none", val |-> PyInt(decode(ret.val.v))]
    /\ UNCHANGED session

Next ==
    \/ Return
    \/ /\ Idle
       /\ \E script \in Scripts, rx \in Replies(1) : DoAt(script, rx)
    \/ /\ Idle
       /\ \E cmd_code \in Opcodes, address \in Addresses, length \in Lengths,
             script \in Scripts, rx \in Replies(1) :
               DoCommand(cmd_code, address, length, script, rx)
    \/ /\ Idle
       /\ \E n \in 0..MaxSmall, address \in Addresses, script \in Scripts,
             rx \in Replies(1) :
               DoWrite(Pattern(n), address, script, rx)
    \/ /\ Idle
       /\ \E n \in 0..MaxSmall, m \in 0..MaxSmall, address \in Addresses,
             script \in Scripts, reply \in Replies(1) :
               DoRead(n, address, script, reply \o Pattern(m))
    \/ /\ Idle
       /\ \E address \in Targets, regs \in Registers, script \in Scripts,
             rx \in Replies(2) :
               DoExecute(address, regs, 118, script, rx)
    \/ /\ Idle
       /\ \E rom_data \in Images, script \in Scripts, rx \in Replies(1) :
               DoLoad(rom_data, script, rx)
    \/ /\ Idle
       /\ \E number \in Numbers, address \in BOOLEAN : DoEncode(number, address)
    \/ DoDecode
    \/ /\ Idle
       /\ \E name \in MemoryProperties, m \in PageSizes, script \in Scripts,
             reply \in Replies(1) :
               DoMemory(name, script, reply \o Pattern(m))
    \/ /\ Idle
       /\ \E name \in VectorProperties : DoVector(name)
    \/ /\ Idle
       /\ \E address \in Offsets : DoHardwareAddress(address)

Spec == Init /\ [][Next]_vars

(* The chunking specification: one board that answered its construction,   *)
(* and payloads of every length up to MaxLen.                              *)
InitChunk == Construct(TRUE, <<>>, <<OK>> \o Tide816)

NextChunk ==
    \/ Return
    \/ /\ Idle
       /\ \E n \in 0..MaxLen, address \in {PyNone, PyInt(4660)},
             script \in ChunkScripts, rx \in Replies(1) :
               DoWrite(Pattern(n), address, script, rx)
    \/ /\ Idle
       /\ \E n \in 0..MaxLen, short \in 0..1, address \in {PyNone, PyInt(4660)},
             script \in {<<>>, <<"timeout">>}, reply \in Replies(1) :
               DoRead(n, address, script, reply \o Pattern(Max(0, n - short)))

ChunkSpec == InitChunk /\ [][NextChunk]_vars

---------------------------------------------------------------------------
(* Vocabulary of the properties: what the log of a call shows.             *)
IsAtWrite(e) == e.op = "write" /\ e.site = "at"
IsAtRead(e) == e.op = "read" /\ e.site = "at"
IsCommand(e) == e.op = "write" /\ e.site = "command"
IsPayloadWrite(e) == e.op = "write" /\ e.site \in {"raw", "single", "full", "last"}
IsPayloadRead(e) == e.op = "read" /\ e.site \in {"single", "full", "last"}

(* The probe that starts at log[i] was answered by the one byte OK.        *)
ProbeOkAt(i) ==
    /\ i >= 1
    /\ i + 1 <= Len(log)
    /\ IsAtWrite(log[i]) /\ log[i].out = "ok"
    /\ IsAtRead(log[i + 1]) /\ log[i + 1].data = <<OK>>

(* The probe that starts at log[i] failed the way the claims name: the     *)
(* write raised or wrote nothing, or one byte other than OK came back.     *)
ProbeRefusedAt(i) ==
    /\ i >= 1
    /\ i <= Len(log)
    /\ IsAtWrite(log[i])
    /\ \/ log[i].out # "ok"
       \/ /\ i + 1 <= Len(log)
          /\ Len(log[i + 1].data) = 1
          /\ log[i + 1].data # <<OK>>

RECURSIVE ConcatData(_)
ConcatData(events) ==
    IF events = <<>> THEN <<>> ELSE Head(events).data \o ConcatData(Tail(events))

RECURSIVE SumRequested(_)
SumRequested(events) ==
    IF events = <<>> THEN 0 ELSE Head(events).n + SumRequested(Tail(events))

PayloadWrites == SelectSeq(log, IsPayloadWrite)
PayloadReads == SelectSeq(log, IsPayloadRead)

(* v as k little-endian bytes, by arithmetic.                              *)
RECURSIVE Pow256(_)
Pow256(k) == IF k = 0 THEN 1 ELSE 256 * Pow256(k - 1)
LittleEndian(v, k) == [i \in 1..k |-> (v \div Pow256(i - 1)) % 256]

CeilDiv(a, b) == (a + b - 1) \div b

---------------------------------------------------------------------------
(* C1: in every call, a command packet is written only right after a probe *)
(* of the same dispatch that wrote 0x55 0xAA and read the one byte 0xCC;   *)
(* and when the probe of an sxb_command call is refused (its write fails,  *)
(* or a byte other than 0xCC comes back), nothing more is written and the  *)
(* call returns a falsy value.                                             *)
C1_CommandOnlyAfterProbe ==
    /\ \A i \in 1..Len(log) :
           IsCommand(log[i]) => (i >= 3 /\ ProbeOkAt(i - 2))
    /\ (call.op = "sxb_command" /\ ProbeRefusedAt(1)) =>
           /\ \A i \in 1..Len(log) : ~IsCommand(log[i]) /\ ~IsPayloadWrite(log[i])
           /\ Len(log) <= 2
           /\ ret.exc = "none"
           /\ ~Truthy(ret.val)

(* An sxb_execute call whose first probe was answered 0x00 and whose       *)
(* second probe was answered 0xCC: only the second dispatch wrote a packet. *)
C1_Witness ==
    /\ call.op = "sxb_execute"
    /\ Len(log) = 5
    /\ ProbeRefusedAt(1)
    /\ ProbeOkAt(3)
    /\ IsCommand(log[5])

---------------------------------------------------------------------------
(* C2.  An sxb_write call whose WRITE dispatch succeeded and that returned. *)
WriteDispatched ==
    /\ call.op = "sxb_write"
    /\ Len(log) >= 3
    /\ ProbeOkAt(1)
    /\ IsCommand(log[3]) /\ log[3].out = "ok"
    /\ ret.exc = "none"

LastPayloadWrite == PayloadWrites[Len(PayloadWrites)]

(* C2, as claimed: for every data length L the payload is written in       *)
(* ceil(L/62) calls (1 when L < 62) of at most 62 bytes, the last of       *)
(* L - 62*floor((L-1)/62) bytes, and the writes concatenated are data.     *)
C2_Original ==
    WriteDispatched =>
        /\ Len(PayloadWrites) =
               (IF Len(call.data) < BLK_SIZE THEN 1
                ELSE CeilDiv(Len(call.data), BLK_SIZE))
        /\ \A i \in 1..Len(PayloadWrites) : Len(PayloadWrites[i].data) <= BLK_SIZE
        /\ Len(LastPayloadWrite.data) =
               Len(call.data) - BLK_SIZE * ((Len(call.data) - 1) \div BLK_SIZE)
        /\ ConcatData(PayloadWrites) = call.data

(* C2, amended: the same, the last write being of L - 62*floor((L-1)/62)   *)
(* bytes for L >= 1 and of 0 bytes for L = 0.                              *)
C2_ChunkedWrite ==
    WriteDispatched =>
        /\ Len(PayloadWrites) =
               (IF Len(call.data) < BLK_SIZE THEN 1
                ELSE CeilDiv(Len(call.data), BLK_SIZE))
        /\ \A i \in 1..Len(PayloadWrites) : Len(PayloadWrites[i].data) <= BLK_SIZE
        /\ Len(LastPayloadWrite.data) =
               (IF Len(call.data) = 0 THEN 0
                ELSE Len(call.data)
                     - BLK_SIZE * ((Len(call.data) - 1) \div BLK_SIZE))
        /\ ConcatData(PayloadWrites) = call.data

(* 125 bytes written as 62 + 62 + 1.                                       *)
C2_Witness ==
    /\ WriteDispatched
    /\ Len(call.data) = 2 * BLK_SIZE + 1
    /\ Len(PayloadWrites) = 3
    /\ Len(LastPayloadWrite.data) = 1

---------------------------------------------------------------------------
(* C3.  An sxb_read call that returned and whose payload reads each got    *)
(* the number of bytes they asked for.                                     *)
ReadExact ==
    /\ call.op = "sxb_read"
    /\ ret.exc = "none"
    /\ \A i \in 1..Len(PayloadReads) : PayloadReads[i].out = "ok"

(* C3: such a call returns exactly L bytes, the payload reads concatenated *)
(* in order; every read asks for 62 bytes but the last, which asks for     *)
(* L - offset, and the sizes asked for sum to L.                           *)
C3_ChunkedRead ==
    ReadExact =>
        /\ ret.val.ty = "bytes"
        /\ Len(ret.val.v) = call.length
        /\ ret.val.v = ConcatData(PayloadReads)
        /\ Len(PayloadReads) >= 1
        /\ \A i \in 1..Len(PayloadReads) :
               /\ PayloadReads[i].n <= BLK_SIZE
               /\ PayloadReads[i].n =
                      (IF i < Len(PayloadReads) THEN BLK_SIZE
                       ELSE call.length - BLK_SIZE * (i - 1))
        /\ SumRequested(PayloadReads) = call.length

(* 125 bytes read as 62 + 62 + 1.                                          *)
C3_Witness ==
    /\ ReadExact
    /\ call.length = 2 * BLK_SIZE + 1
    /\ Len(PayloadReads) = 3
    /\ PayloadReads[3].n = 1
    /\ Len(ret.val.v) = 2 * BLK_SIZE + 1

---------------------------------------------------------------------------
(* C4.  The value the codec call is about is in the range of its width.    *)
InRange == call.number < (IF call.address THEN Pow256(3) ELSE Pow256(2))

(* C4: encode returns 3 bytes for an address and 2 for a length, each in   *)
(* 0..255 and each the little-endian digit of the number at its place; and *)
(* decoding what encode returned gives the number back, for every number   *)
(* below 2^24 (address) or 2^16 (length).                                  *)
C4_CodecRoundTrip ==
    /\ call.op = "encode" =>
           /\ Len(ret.val.v) = (IF call.address THEN 3 ELSE 2)
           /\ \A i \in 1..Len(ret.val.v) : ret.val.v[i] \in 0..255
           /\ ret.val.v = LittleEndian(call.number, Len(ret.val.v))
    /\ (call.op = "decode" /\ InRange) =>
           /\ ret.val.ty = "int"
           /\ ret.val.v = call.number

(* 0xFF8001 went through encode as 01 80 FF and came back from decode.     *)
C4_Witness ==
    /\ call.op = "decode"
    /\ call.address
    /\ call.number = 1 + 256 * 128 + 65536 * 255
    /\ call.byte_array = <<1, 128, 255>>
    /\ ret.val.v = call.number

---------------------------------------------------------------------------
(* C5, as claimed: the packet an sxb_command call writes is the opcode,    *)
(* then the 3 little-endian bytes of the address when the caller supplied  *)
(* one (anything but None, 0 included), then the 2 little-endian bytes of  *)
(* the length when the caller supplied one.                                *)
C5_PacketLayout ==
    \A i \in 1..Len(log) :
        (call.op = "sxb_command" /\ IsCommand(log[i])) =>
            log[i].data =
                <<call.cmd_code>>
                \o (IF call.address.ty # "None"
                    THEN LittleEndian(call.address.v, 3) ELSE <<>>)
                \o (IF call.length.ty # "None"
                    THEN LittleEndian(call.length.v, 2) ELSE <<>>)

---------------------------------------------------------------------------
(* C6, as claimed: an sxb_at call never raises, and what it returns is     *)
(* truthy exactly when the probe read the one byte 0xCC.                   *)
C6_ProbeNeverFatal ==
    call.op = "sxb_at" =>
        /\ ret.exc = "none"
        /\ Truthy(ret.val) <=> ProbeOkAt(1)

---------------------------------------------------------------------------
(* C7: an sxb_command call returns a truthy value exactly when its probe   *)
(* read 0xCC and the write of the packet wrote more than zero bytes; when  *)
(* the write of the packet raises a timeout or a TypeError, the call       *)
(* returns a falsy value and raises nothing.                               *)
C7_CommandResult ==
    call.op = "sxb_command" =>
        /\ (ret.exc = "none" /\ Truthy(ret.val)) <=>
               (/\ Len(log) >= 3
                /\ ProbeOkAt(1)
                /\ IsCommand(log[3])
                /\ log[3].n > 0)
        /\ (/\ Len(log) >= 3
            /\ IsCommand(log[3])
            /\ log[3].out \in {"timeout", "typeerror"}) =>
               (ret.exc = "none" /\ ~Truthy(ret.val))

(* The write of a READ packet timed out after a good probe, and the call   *)
(* returned None.                                                          *)
C7_Witness ==
    /\ call.op = "sxb_command"
    /\ call.cmd_code = READ
    /\ Len(log) = 3
    /\ ProbeOkAt(1)
    /\ IsCommand(log[3])
    /\ log[3].out = "timeout"
    /\ ret = [exc |-> "none", val |-> PyNone]

---------------------------------------------------------------------------
(* C8, as claimed: what an sxb_execute call hands the write path is a flat *)
(* sequence of exactly 12 bytes: A, X, Y and the low two bytes of the      *)
(* address, each little-endian, then 00 00 and FF 01; and the WRITE packet *)
(* before it carries mon_ram and the number of bytes of the block.         *)
C8_StateBlock ==
    \A i \in 1..Len(log) :
        (call.op = "sxb_execute" /\ IsPayloadWrite(log[i])) =>
            /\ Len(log[i].data) = 12
            /\ BytesLike(log[i].data)
            /\ log[i].data =
                   LittleEndian(call.a_reg, 2) \o LittleEndian(call.x_reg, 2)
                   \o LittleEndian(call.y_reg, 2)
                   \o LittleEndian(call.address % Pow256(2), 2)
                   \o <<0, 0, 255, 1>>
            /\ i >= 2
            /\ IsCommand(log[i - 1])
            /\ log[i - 1].data =
                   <<WRITE>> \o LittleEndian(session.mon_ram, 3)
                   \o LittleEndian(Len(log[i].data), 2)

---------------------------------------------------------------------------
(* C9, as claimed: in an sxb_execute call the EXEC packet is written only  *)
(* after the WRITE packet and, after that, the state block were written in *)
(* the same call.                                                          *)
C9_ExecAfterStateBlock ==
    \A i \in 1..Len(log) :
        (/\ call.op = "sxb_execute"
         /\ IsCommand(log[i])
         /\ log[i].data = <<EXEC, 1, 0>>) =>
            \E j \in 1..(i - 1) :
                /\ j >= 2
                /\ IsCommand(log[j - 1])
                /\ log[j - 1].data[1] = WRITE
                /\ log[j - 1].out = "ok"
                /\ IsPayloadWrite(log[j])
                /\ log[j].out = "ok"

---------------------------------------------------------------------------
(* C10.  An sxb_load call on an image that starts with 0x5A and holds all  *)
(* the code its header announces, over a transport that answered every     *)
(* probe with 0xCC and completed every write.                              *)
LoadServed ==
    /\ call.op = "sxb_load"
    /\ Len(call.rom_data) >= 7
    /\ call.rom_data[1] = 90
    /\ Len(call.rom_data) >= 7 + decode(Slice(call.rom_data, 4, 6))
    /\ ret.exc = "none"
    /\ \A i \in 1..Len(log) :
           /\ log[i].out = "ok"
           /\ IsAtRead(log[i]) => log[i].data = <<OK>>

(* C10, as claimed: such a call reports the address of bytes 1-3 and the   *)
(* length of bytes 4-5, writes a WRITE packet with that address and that   *)
(* length, and writes as payload exactly the image bytes 7..7+length.      *)
C10_LoadWrites ==
    LoadServed =>
        /\ ret.val = PyTuple(<<decode(Slice(call.rom_data, 1, 4)),
                               decode(Slice(call.rom_data, 4, 6))>>)
        /\ \E i \in 1..Len(log) :
               /\ IsCommand(log[i])
               /\ log[i].data =
                      <<WRITE>> \o Slice(call.rom_data, 1, 4)
                      \o Slice(call.rom_data, 4, 6)
        /\ ConcatData(PayloadWrites) =
               Slice(call.rom_data, 7, 7 + decode(Slice(call.rom_data, 4, 6)))

---------------------------------------------------------------------------
(* C11: an sxb_load call on an image whose first byte is not 0x5A raises   *)
(* ValueError to the caller and performs no transport operation, and the   *)
(* step that makes the call leaves the session as it was.                  *)
C11_RejectedImage ==
    [][(/\ call'.op = "sxb_load"
        /\ Len(call'.rom_data) > 0
        /\ call'.rom_data[1] # 90) =>
           (/\ ret'.exc = "ValueError"
            /\ log' = <<>>
            /\ session' = session)]_vars

(* An image that starts with 0x00 was refused on a session that holds a    *)
(* Board Model.                                                            *)
C11_Witness ==
    /\ call.op = "sxb_load"
    /\ call.rom_data = Image(0, <<1, 0, 0>>, <<2, 0>>, <<222, 173>>)
    /\ ret.exc = "ValueError"
    /\ log = <<>>
    /\ session.attrs

---------------------------------------------------------------------------
(* C12, as claimed: no call of sxb_at, sxb_command, sxb_write, sxb_read or *)
(* sxb_execute ends with the write timeout of the transport escaping to    *)
(* the caller.                                                             *)
C12_TimeoutNeverEscapes ==
    call.op \in {"sxb_at", "sxb_command", "sxb_write", "sxb_read", "sxb_execute"} =>
        ret.exc # "SerialTimeoutException"

---------------------------------------------------------------------------
(* C13.  The value of hardware_address by arithmetic: byte 1 of            *)
(* hw_vector_base (bits 8-15) over the low byte of the offset.             *)
HardwareAddressIs ==
    /\ ret.exc = "none"
    /\ ret.val = PyInt(((session.hw_vector_base \div 256) % 256) * 256
                       + (call.address % 256))

(* C13, as claimed: hardware_address returns (hw_vector_base & 0xFF00) |   *)
(* (offset & 0x00FF), and for hw_vector_base = 0xAB1234 and offset = 0x56  *)
(* that is 0xAB56.                                                         *)
C13_Original ==
    (call.op = "hardware_address" /\ session.attrs) =>
        /\ HardwareAddressIs
        /\ (session.hw_vector_base = 11211316 /\ call.address = 86) =>
               ret.val = PyInt(43862)

(* C13, amended: hardware_address returns (hw_vector_base & 0xFF00) |      *)
(* (offset & 0x00FF), and for hw_vector_base = 0xAB1234 and offset = 0x56  *)
(* that is 0x1256.                                                         *)
C13_HardwareAddress ==
    (call.op = "hardware_address" /\ session.attrs) =>
        /\ HardwareAddressIs
        /\ (session.hw_vector_base = 11211316 /\ call.address = 86) =>
               ret.val = PyInt(4694)

(* hardware_address(0x56) was called on the session whose hw_vector_base   *)
(* is 0xAB1234.                                                            *)
C13_Witness ==
    /\ call.op = "hardware_address"
    /\ call.address = 86
    /\ session.attrs
    /\ session.hw_vector_base = 11211316
    /\ ret.val = PyInt(4694)

---------------------------------------------------------------------------
(* C14: a session that construction gave its attributes to has emulation   *)
(* true when cpu_type is 0 and equal to the emulation_mode argument of the *)
(* constructor otherwise; and no step changes emulation or cpu_type.       *)
C14_EmulationFixed ==
    /\ []((call.op = "__init__" /\ session.attrs) =>
              session.emulation =
                  (IF session.cpu_type = 0 THEN TRUE ELSE call.emulation_mode))
    /\ [][/\ session'.attrs = session.attrs
          /\ session'.emulation = session.emulation
          /\ session'.cpu_type = session.cpu_type]_vars

(* An sxb_execute call on a 65816 session constructed with emulation_mode  *)
(* False: emulation is still off, and the state block says so.             *)
C14_Witness ==
    /\ call.op = "sxb_execute"
    /\ session.attrs
    /\ session.cpu_type = 1
    /\ ~session.emulation
    /\ \E i \in 1..Len(log) : IsPayloadWrite(log[i]) /\ log[i].data[11] = 0

---------------------------------------------------------------------------
(* C15: no step changes mon_ram, cpu_type, board_id, mon_rom,              *)
(* shadow_vector_base, hw_io or hw_vector_base, whether the call of the    *)
(* step returns or raises.                                                 *)
C15_BoardModelReadOnly ==
    [][/\ session'.mon_ram = session.mon_ram
       /\ session'.cpu_type = session.cpu_type
       /\ session'.board_id = session.board_id
       /\ session'.mon_rom = session.mon_rom
       /\ session'.shadow_vector_base = session.shadow_vector_base
       /\ session'.hw_io = session.hw_io
       /\ session'.hw_vector_base = session.hw_vector_base]_vars

(* An sxb_write call ended with the write timeout escaping, on the session *)
(* of the 65816 board, whose Board Model is as construction decoded it.    *)
C15_Witness ==
    /\ call.op = "sxb_write"
    /\ ret.exc = "SerialTimeoutException"
    /\ session.mon_ram = 32256
    /\ session.cpu_type = 1
    /\ session.board_id = 2
    /\ session.mon_rom = 57344
    /\ session.shadow_vector_base = 8192
    /\ session.hw_io = 32512
    /\ session.hw_vector_base = 11211316

---------------------------------------------------------------------------
(* C16.  The table of the vectors: the offset of each from                 *)
(* shadow_vector_base, and what emulation adds to it.                      *)
VectorOffset(name) ==
    CASE name = "coprocessor_vector" -> 0
      [] name = "break_vector" -> 2
      [] name = "abort_vector" -> 4
      [] name = "nmi_vector" -> 6
      [] name = "reset_vector" -> 8
      [] name = "irq_vector" -> 10

EmulationShift(name) == IF name = "break_vector" THEN 24 ELSE 16

VectorAddress(name) ==
    PyInt(session.shadow_vector_base + VectorOffset(name)
          + (IF session.emulation THEN EmulationShift(name) ELSE 0))

(* C16: on a session with a Board Model, reset, IRQ and break return their *)
(* table address; coprocessor and abort return it when cpu_type is not 0   *)
(* and None when it is 0; NMI returns it when emulation is on; no getter   *)
(* touches the transport; for base 0x2000 with emulation on reset is       *)
(* 0x2018, IRQ 0x201A and break 0x201A.                                    *)
C16_VectorTable ==
    (call.op \in VectorProperties /\ session.attrs) =>
        /\ ret.exc = "none"
        /\ log = <<>>
        /\ call.op \in {"reset_vector", "irq_vector", "break_vector"} =>
               ret.val = VectorAddress(call.op)
        /\ call.op \in {"coprocessor_vector", "abort_vector"} =>
               ret.val = (IF session.cpu_type = 0 THEN PyNone
                          ELSE VectorAddress(call.op))
        /\ (call.op = "nmi_vector" /\ session.emulation) =>
               ret.val = VectorAddress(call.op)
        /\ (session.shadow_vector_base = 8192 /\ session.emulation) =>
               /\ call.op = "reset_vector" => ret.val = PyInt(8216)
               /\ call.op = "irq_vector" => ret.val = PyInt(8218)
               /\ call.op = "break_vector" => ret.val = PyInt(8218)

(* break_vector was read on the session with base 0x2000 and emulation on. *)
C16_Witness ==
    /\ call.op = "break_vector"
    /\ session.attrs
    /\ session.shadow_vector_base = 8192
    /\ session.emulation
    /\ ret.val = PyInt(8218)

---------------------------------------------------------------------------
(* C17.  The header of the call was sent: its first three transport        *)
(* operations are a probe answered 0xCC and a completed write of the       *)
(* command packet.                                                         *)
HeaderSentBefore(i) ==
    /\ i >= 4
    /\ ProbeOkAt(1)
    /\ IsCommand(log[3])
    /\ log[3].out = "ok"

(* C17, as claimed: in an sxb_write or sxb_read call that was given an     *)
(* address (anything but None, 0 included), every payload write and every  *)
(* payload read comes after the header of the call was sent.               *)
C17_PayloadAfterHeader ==
    (call.op \in {"sxb_write", "sxb_read"} /\ call.address.ty # "None") =>
        \A i \in 1..Len(log) :
            (IsPayloadWrite(log[i]) \/ IsPayloadRead(log[i])) =>
                HeaderSentBefore(i)

---------------------------------------------------------------------------
(* C18, as claimed: an sxb_write call with an address that returns has     *)
(* returned 0, with no payload write issued, when the WRITE dispatch       *)
(* failed, and len(data) when the dispatch succeeded and every chunk was   *)
(* written.                                                                *)
C18_WriteCount ==
    (/\ call.op = "sxb_write"
     /\ Truthy(call.address)
     /\ ret.exc = "none") =>
        IF WriteDispatched
        THEN (\A i \in 1..Len(PayloadWrites) : PayloadWrites[i].out = "ok") =>
                 ret.val = PyInt(Len(call.data))
        ELSE /\ ret.val = PyInt(0)
             /\ PayloadWrites = <<>>

---------------------------------------------------------------------------
(* C19, as claimed: on a session with a Board Model, nmi_vector,           *)
(* irq_vector, reset_vector and break_vector each return an integer.       *)
C19_VectorDefined ==
    (/\ call.op \in {"nmi_vector", "irq_vector", "reset_vector", "break_vector"}
     /\ session.attrs) =>
        /\ ret.exc = "none"
        /\ ret.val.ty = "int"

---------------------------------------------------------------------------
(* C20.  The TIDE dispatch of the construction failed: no command packet   *)
(* was written with more than zero bytes after a probe answered 0xCC.      *)
TideDispatchFailed ==
    ~(/\ Len(log) >= 3
      /\ ProbeOkAt(1)
      /\ IsCommand(log[3])
      /\ log[3].n > 0)

TideReadFull ==
    \E i \in 1..Len(log) :
        log[i].op = "read" /\ log[i].site = "tide" /\ Len(log[i].data) = 29

(* C20, as claimed: a construction whose TIDE dispatch failed, or whose    *)
(* read returned 29 bytes, ends with every attribute set; when the         *)
(* dispatch failed nothing is read for the identity block and the model is *)
(* that of 29 zero bytes, with emulation on.                               *)
C20_ConstructionDefined ==
    (call.op = "__init__" /\ (TideDispatchFailed \/ TideReadFull)) =>
        /\ ret.exc = "none"
        /\ session.attrs
        /\ TideDispatchFailed =>
               /\ \A i \in 1..Len(log) : log[i].site # "tide"
               /\ session.mon_ram = 0
               /\ session.cpu_type = 0
               /\ session.board_id = 0
               /\ session.mon_rom = 0
               /\ session.shadow_vector_base = 0
               /\ session.hw_io = 0
               /\ session.hw_vector_base = 0
               /\ session.emulation

=============================================================================
